---- MODULE Spec2Model ----
(***************************************************************************)
(* Chat REST backend (src/main.py): servers, channels and messages kept in *)
(* three collections of a document store, the serialization helper, the    *)
(* route handlers and the demo seeding routine.                            *)
(*                                                                         *)
(* Python values are tagged records [t |-> tag, v |-> payload]; a dict is  *)
(* the sequence of its <<key, value>> items in insertion order.            *)
(***************************************************************************)
EXTENDS Integers, Sequences, FiniteSets, TLC

VARIABLES
    server,     \* collection "server": documents in natural order
    channel,    \* collection "channel"
    message,    \* collection "message"
    nextId,     \* the next ObjectId the store assigns
    clock,      \* the wall clock create_document stamps created_at with
    resp,       \* the request just served and its response
    budget,     \* create requests the clients may still send
    hist,       \* history: the successful client creates (route, path, body, id)
    pc,         \* seed_demo: position of each call
    sv,         \* seed_demo: local `server` of each call
    chs,        \* seed_demo: local `channels` of each call
    idx,        \* seed_demo: loop index of each call
    nseed,      \* seed_demo calls that may still start
    overlap,    \* history: a seed_demo call started while another was running
    sdoc,       \* serialize_doc: the document it is first applied to
    sout        \* serialize_doc: its results so far

vars == <<server, channel, message, nextId, clock, resp, budget, hist,
          pc, sv, chs, idx, nseed, overlap, sdoc, sout>>

store == <<server, channel, message>>

-----------------------------------------------------------------------------
(* Bounds of the model *)

MaxCreates == 2
MaxFields == 2

-----------------------------------------------------------------------------
(* Python values *)

None == [t |-> "none", v |-> 0]
Str(s) == [t |-> "str", v |-> s]
Num(n) == [t |-> "int", v |-> n]
Bool(b) == [t |-> "bool", v |-> b]
List(s) == [t |-> "list", v |-> s]
Dict(items) == [t |-> "dict", v |-> items]
Oid(n) == [t |-> "oid", v |-> n]

Truthy(x) ==
    CASE x.t = "none" -> FALSE
      [] x.t \in {"dict", "list"} -> Len(x.v) > 0
      [] x.t = "str" -> x.v # ""
      [] x.t = "bool" -> x.v
      [] x.t = "int" -> x.v # 0
      [] OTHER -> TRUE

Has(d, k) == \E i \in 1..Len(d.v) : d.v[i][1] = k
Get(d, k) == d.v[CHOOSE i \in 1..Len(d.v) : d.v[i][1] = k][2]
GetOr(d, k, dflt) == IF Has(d, k) THEN Get(d, k) ELSE dflt
\* d[k] = v : an existing key keeps its position, a new key goes last
Put(d, k, v) ==
    IF Has(d, k)
    THEN Dict([i \in 1..Len(d.v) |-> IF d.v[i][1] = k THEN <<k, v>> ELSE d.v[i]])
    ELSE Dict(Append(d.v, <<k, v>>))

HexDigit == <<"0", "1", "2", "3", "4", "5", "6", "7",
              "8", "9", "a", "b", "c", "d", "e", "f">>
\* str(ObjectId): 24 hexadecimal digits
OidStr(n) == "0000000000000000000000" \o HexDigit[(n \div 16) + 1] \o HexDigit[(n % 16) + 1]
OidSpace == 0..255
ObjectId_is_valid(s) == \E n \in OidSpace : OidStr(n) = s
ObjectId(s) == Oid(CHOOSE n \in OidSpace : OidStr(n) = s)

-----------------------------------------------------------------------------
(* Helpers *)

serialize_id_raw(value) == value

serialize_id(value) ==
    IF value.t = "oid" THEN Str(OidStr(value.v)) ELSE value

RECURSIVE serialize_items(_, _)
serialize_items(items, out) ==
    IF items = <<>> THEN out
    ELSE LET k == Head(items)[1]
             v == Head(items)[2]
         IN  serialize_items(Tail(items),
                 IF k = "_id" THEN Put(out, "id", serialize_id(v))
                 ELSE Put(out, k, serialize_id(v)))

serialize_doc(doc) ==
    IF ~Truthy(doc) THEN doc ELSE serialize_items(doc.v, Dict(<<>>))

serialize_all(docs) == [i \in 1..Len(docs) |-> serialize_doc(docs[i])]

-----------------------------------------------------------------------------
(* Pydantic models: validation of a request body (a dict) and model_dump *)

IsStr(x) == x.t = "str"
IsOptStr(x) == x.t \in {"str", "none"}
IsStrList(x) == x.t = "list" /\ \A i \in 1..Len(x.v) : x.v[i].t = "str"

ChannelTypes == {"text", "voice", "announcement", "stage"}

ServerIn_valid(body) ==
    /\ Has(body, "name") /\ IsStr(Get(body, "name"))
    /\ IsOptStr(GetOr(body, "icon_url", None))
    /\ IsOptStr(GetOr(body, "description", None))
    /\ IsOptStr(GetOr(body, "owner_id", None))

ServerIn_no_owner(body) ==
    Dict(<< <<"name", Get(body, "name")>>,
            <<"icon_url", GetOr(body, "icon_url", None)>>,
            <<"description", GetOr(body, "description", None)>>,
            <<"owner_id", None>> >>)

ServerIn(body) ==
    Dict(<< <<"name", Get(body, "name")>>,
            <<"icon_url", GetOr(body, "icon_url", None)>>,
            <<"description", GetOr(body, "description", None)>>,
            <<"owner_id", GetOr(body, "owner_id", None)>> >>)

ChannelIn_valid_anytype(body) ==
    /\ Has(body, "name") /\ IsStr(Get(body, "name"))
    /\ IsOptStr(GetOr(body, "topic", None))
    /\ GetOr(body, "is_private", Bool(FALSE)).t = "bool"

ChannelIn_valid(body) ==
    /\ Has(body, "name") /\ IsStr(Get(body, "name"))
    /\ IsStr(GetOr(body, "type", Str("text")))
    /\ GetOr(body, "type", Str("text")).v \in ChannelTypes
    /\ IsOptStr(GetOr(body, "topic", None))
    /\ GetOr(body, "is_private", Bool(FALSE)).t = "bool"

ChannelIn(body) ==
    Dict(<< <<"name", Get(body, "name")>>,
            <<"type", GetOr(body, "type", Str("text"))>>,
            <<"topic", GetOr(body, "topic", None)>>,
            <<"is_private", GetOr(body, "is_private", Bool(FALSE))>> >>)

MessageIn_valid(body) ==
    /\ Has(body, "author_id") /\ IsStr(Get(body, "author_id"))
    /\ Has(body, "author_name") /\ IsStr(Get(body, "author_name"))
    /\ Has(body, "content") /\ IsStr(Get(body, "content"))
    /\ IsStrList(GetOr(body, "attachments", List(<<>>)))

MessageIn(body) ==
    Dict(<< <<"author_id", Get(body, "author_id")>>,
            <<"author_name", Get(body, "author_name")>>,
            <<"content", Get(body, "content")>>,
            <<"attachments", GetOr(body, "attachments", List(<<>>))>> >>)

-----------------------------------------------------------------------------
(* The document store *)

Matches(d, k, v) == Has(d, k) /\ Get(d, k) = v

\* collection.find_one(): the first document in natural order, or None
find_first(coll) == IF coll = <<>> THEN None ELSE coll[1]

\* collection.find_one({k: v})
find_one(coll, k, v) ==
    IF \E i \in 1..Len(coll) : Matches(coll[i], k, v)
    THEN coll[CHOOSE i \in 1..Len(coll) :
                 /\ Matches(coll[i], k, v)
                 /\ \A j \in 1..(i - 1) : ~Matches(coll[j], k, v)]
    ELSE None

\* collection.find({k: v}), in natural order
find(coll, k, v) == SelectSeq(coll, LAMBDA d : Matches(d, k, v))

count_documents(coll, k, v) == Len(find(coll, k, v))

\* cursor.sort("created_at", 1): the orders an ascending sort can return
\* (documents with equal keys come in any order)
Perms(n) == {f \in [1..n -> 1..n] : \A i, j \in 1..n : i # j => f[i] # f[j]}
sort_created_at(docs) ==
    {[i \in 1..Len(docs) |-> docs[f[i]]] : f \in
        {g \in Perms(Len(docs)) : \A i \in 1..(Len(docs) - 1) :
            Get(docs[g[i]], "created_at").v <= Get(docs[g[i + 1]], "created_at").v}}

Abs(n) == IF n < 0 THEN -n ELSE n
Min(a, b) == IF a < b THEN a ELSE b
\* cursor.limit(n): 0 means no limit
limit_cursor(docs, n) ==
    IF n = 0 THEN docs ELSE SubSeq(docs, 1, Min(Abs(n), Len(docs)))

\* database.create_document: stamps the creation time, inserts, returns str(_id)
create_document(coll, data) ==
    [coll |-> Append(coll, Dict(<< <<"_id", Oid(nextId)>> >> \o data.v
                                   \o << <<"created_at", Num(clock)>> >>)),
     id   |-> OidStr(nextId)]

\* database.get_documents(collection, {}) and (collection, {k: v})
get_documents_all(coll) == coll
get_documents(coll, k, v) == find(coll, k, v)

-----------------------------------------------------------------------------
(* Route handlers, as functions of the current state: the collection a    *)
(* handler leaves behind (coll) and the value it returns (ret)             *)

read_root == Dict(<< <<"message", Str("Chat API is running")>> >>)

hello == Dict(<< <<"message", Str("Hello from the backend API!")>> >>)

list_servers == List(serialize_all(get_documents_all(server)))

create_server_replacing(payload) ==
    LET created == create_document(<<>>, payload)
        doc == find_one(created.coll, "_id", ObjectId(created.id))
    IN  [coll |-> created.coll, ret |-> serialize_doc(doc)]

create_server(payload) ==
    LET created == create_document(server, payload)
        doc == find_one(created.coll, "_id", ObjectId(created.id))
    IN  [coll |-> created.coll, ret |-> serialize_doc(doc)]

list_channels(server_id) ==
    List(serialize_all(get_documents(channel, "server_id", Str(server_id))))

create_channel_data_body(server_id, body, payload) ==
    IF Has(body, "server_id") THEN Put(payload, "server_id", Get(body, "server_id"))
    ELSE Put(payload, "server_id", Str(server_id))

\* data = payload.model_dump(); data["server_id"] = server_id
create_channel_data(server_id, body, payload) == Put(payload, "server_id", Str(server_id))

create_channel(server_id, body) ==
    LET created == create_document(channel,
                       create_channel_data(server_id, body, ChannelIn(body)))
        doc == find_one(created.coll, "_id", ObjectId(created.id))
    IN  [coll |-> created.coll, ret |-> serialize_doc(doc)]

\* the results list_messages can return
list_messages(channel_id, limit) ==
    {List(serialize_all(limit_cursor(s, limit))) :
        s \in sort_created_at(find(message, "channel_id", Str(channel_id)))}

\* the channel looked up by send_message
send_message_channel(channel_id) ==
    IF ObjectId_is_valid(channel_id)
    THEN find_one(channel, "_id", ObjectId(channel_id))
    ELSE find_one(channel, "id", Str(channel_id))

send_message_not_found(found) == ~Truthy(found)

\* if not channel: pass -- whether send_message gives up on the channel it looked up
send_message_gives_up(found) == FALSE

send_message(channel_id, payload) ==
    LET data == Put(payload, "channel_id", Str(channel_id))
        created == create_document(message, data)
        doc == find_one(created.coll, "_id", ObjectId(created.id))
    IN  [coll |-> created.coll, ret |-> serialize_doc(doc)]

-----------------------------------------------------------------------------
(* seed_demo, as functions of the current state *)

SeedServer ==
    Dict(<< <<"name", Str("VibeCord")>>,
            <<"description", Str("A modern, minimal community")>> >>)

SeedChannels == <<"general", "announcements", "design", "dev-talk">>

SeedChannel(name) ==
    Dict(<< <<"name", Str(name)>>, <<"topic", Str("Welcome to #" \o name)>> >>)

\* (the first text's dash is a plain hyphen here)
SeedTexts == <<"Welcome to VibeCord - a clean, modern chat.",
               "Use the message box below to send your first message.",
               "We'll keep things fast and minimal.">>

SeedMessage(text) ==
    Dict(<< <<"author_id", Str("seed")>>, <<"author_name", Str("System")>>,
            <<"content", Str(text)>> >>)

seed_existing_blind == None

\* existing = db["server"].find_one()
seed_existing == find_first(server)

seed_channels_always(server_id) == TRUE

\* db["channel"].count_documents({"server_id": server_id}) == 0
seed_channels_missing(server_id) ==
    count_documents(channel, "server_id", Str(server_id)) = 0

\* db["message"].count_documents({"channel_id": first_channel["id"]}) == 0
seed_messages_missing(first_channel) ==
    count_documents(message, "channel_id", Get(first_channel, "id")) = 0

seed_response(p) == Dict(<< <<"server", sv[p]>>, <<"channels", chs[p]>> >>)

-----------------------------------------------------------------------------
(* Requests the clients send *)

DefaultLimit == 50

ServerBodies ==
    { Dict(<< <<"name", Str("Test")>> >>),
      Dict(<< <<"name", Str("Guild")>>, <<"icon_url", Str("g.png")>>,
              <<"description", Str("A guild")>>, <<"owner_id", Str("u1")>>,
              <<"member_ids", List(<<Str("u1")>>)>> >>),
      Dict(<< <<"description", Str("nameless")>> >>) }

ChannelBodies ==
    { Dict(<< <<"server_id", Str("elsewhere")>>, <<"name", Str("talk")>>,
              <<"type", Str("voice")>>, <<"is_private", Bool(TRUE)>> >>),
      Dict(<< <<"name", Str("board")>>, <<"type", Str("forum")>> >>),
      Dict(<< <<"type", Str("text")>> >>) }

MessageBodies ==
    { Dict(<< <<"author_id", Str("u1")>>, <<"author_name", Str("Ann")>>,
              <<"content", Str("hi")>> >>),
      Dict(<< <<"author_id", Str("u1")>>, <<"content", Str("hi")>> >>) }

\* path parameters: the first identifier the store assigns (well formed; it
\* names a Server, a Channel, a Message or nothing yet) and a string that is
\* no well-formed identifier
PathIds == {OidStr(1), "lobby"}

Limits == {0, 1, DefaultLimit}

Response(route, path, body, limit, status, out) ==
    [route |-> route, path |-> path, body |-> body, limit |-> limit,
     status |-> status, out |-> out]

NoResponse == Response("", "", None, 0, 0, None)

ValidationError == Dict(<< <<"detail", Str("validation error")>> >>)

NotFound == Dict(<< <<"detail", Str("Channel not found")>> >>)

SeedVars == <<pc, sv, chs, idx, nseed, overlap>>
SerializeVars == <<sdoc, sout>>

Reads(route, path, limit, out) ==
    /\ resp' = Response(route, path, None, limit, 200, out)
    /\ UNCHANGED <<server, channel, message, nextId, clock, budget, hist>>
    /\ UNCHANGED <<SeedVars, SerializeVars>>

Failed(route, path, body, status, out) ==
    /\ resp' = Response(route, path, body, 0, status, out)
    /\ UNCHANGED <<server, channel, message, nextId, clock, budget, hist>>
    /\ UNCHANGED <<SeedVars, SerializeVars>>

Created(route, path, body, r) ==
    /\ resp' = Response(route, path, body, 0, 200, r.ret)
    /\ nextId' = nextId + 1
    /\ budget' = budget - 1
    /\ hist' = hist \cup {[route |-> route, path |-> path, body |-> body,
                           id |-> Get(r.ret, "id")]}
    /\ UNCHANGED <<clock, SeedVars, SerializeVars>>

ReadRoot == Reads("read_root", "", 0, read_root)

Hello == Reads("hello", "", 0, hello)

\* GET /test with the store connected: list_collection_names answers or
\* raises, and DATABASE_URL, DATABASE_NAME are set or not
TestDatabase ==
    \E raised \in BOOLEAN, url \in BOOLEAN, name \in BOOLEAN :
        Reads("test_database", "", 0,
              Dict(<< <<"backend", Str("Running")>>,
                      <<"database", Str(IF raised THEN "Connected but Error"
                                        ELSE "Connected & Working")>>,
                      <<"database_url", Str(IF url THEN "Set" ELSE "Not Set")>>,
                      <<"database_name", Str(IF name THEN "Set" ELSE "Not Set")>>,
                      <<"connection_status", Str("Connected")>>,
                      <<"collections", List(IF raised THEN <<>> ELSE
                            (IF server = <<>> THEN <<>> ELSE <<Str("server")>>)
                         \o (IF channel = <<>> THEN <<>> ELSE <<Str("channel")>>)
                         \o (IF message = <<>> THEN <<>> ELSE <<Str("message")>>))>> >>))

ListServers == Reads("list_servers", "", 0, list_servers)

CreateServer ==
    \E body \in ServerBodies :
        IF ~ServerIn_valid(body)
        THEN Failed("create_server", "", body, 422, ValidationError)
        ELSE /\ budget > 0
             /\ LET r == create_server(ServerIn(body))
                IN  /\ server' = r.coll
                    /\ Created("create_server", "", body, r)
             /\ UNCHANGED <<channel, message>>

ListChannels ==
    \E server_id \in PathIds :
        Reads("list_channels", server_id, 0, list_channels(server_id))

CreateChannel ==
    \E server_id \in PathIds, body \in ChannelBodies :
        IF ~ChannelIn_valid(body)
        THEN Failed("create_channel", server_id, body, 422, ValidationError)
        ELSE /\ budget > 0
             /\ LET r == create_channel(server_id, body)
                IN  /\ channel' = r.coll
                    /\ Created("create_channel", server_id, body, r)
             /\ UNCHANGED <<server, message>>

ListMessages ==
    \E channel_id \in PathIds, limit \in Limits :
        \E out \in list_messages(channel_id, limit) :
            Reads("list_messages", channel_id, limit, out)

SendMessage ==
    \E channel_id \in PathIds, body \in MessageBodies :
        IF ~MessageIn_valid(body)
        THEN Failed("send_message", channel_id, body, 422, ValidationError)
        ELSE IF send_message_gives_up(send_message_channel(channel_id))
        THEN Failed("send_message", channel_id, body, 404, NotFound)
        ELSE /\ budget > 0
             /\ LET r == send_message(channel_id, MessageIn(body))
                IN  /\ message' = r.coll
                    /\ Created("send_message", channel_id, body, r)
             /\ UNCHANGED <<server, channel>>

\* time passes between two inserts (only the order of the stamps is
\* observable, so one tick per insert covers every order)
Tick ==
    /\ clock < nextId - 1
    /\ clock' = clock + 1
    /\ UNCHANGED <<server, channel, message, nextId, resp, budget, hist>>
    /\ UNCHANGED <<SeedVars, SerializeVars>>

-----------------------------------------------------------------------------
(* POST /api/seed: one step per store call of seed_demo; a create and its  *)
(* read-back by _id are one step (documents are never changed or removed,  *)
(* so the read-back returns the document just inserted)                    *)

ProcIds == {1, 2}

Running(p) == pc[p] \notin {"idle", "done"}

Goto(p, label) == pc' = [pc EXCEPT ![p] = label]

SeedFrame == UNCHANGED <<resp, budget, hist, clock, SerializeVars>>

\* calls are interchangeable: call 2 is the one that starts second
SeedBegin(p) ==
    /\ pc[p] = "idle"
    /\ nseed > 0
    /\ p = 1 \/ pc[1] # "idle"
    /\ nseed' = nseed - 1
    /\ overlap' = (overlap \/ \E q \in ProcIds \ {p} : Running(q))
    /\ Goto(p, "find_server")
    /\ UNCHANGED <<server, channel, message, nextId, sv, chs, idx>>
    /\ SeedFrame

SeedFindServer(p) ==
    /\ pc[p] = "find_server"
    /\ IF Truthy(seed_existing)
       THEN /\ sv' = [sv EXCEPT ![p] = serialize_doc(seed_existing)]
            /\ Goto(p, "count_channels")
       ELSE /\ Goto(p, "create_server")
            /\ UNCHANGED sv
    /\ UNCHANGED <<server, channel, message, nextId, chs, idx, nseed, overlap>>
    /\ SeedFrame

SeedCreateServer(p) ==
    /\ pc[p] = "create_server"
    /\ LET r == create_server(ServerIn(SeedServer))
       IN  /\ server' = r.coll
           /\ sv' = [sv EXCEPT ![p] = r.ret]
    /\ nextId' = nextId + 1
    /\ Goto(p, "count_channels")
    /\ UNCHANGED <<channel, message, chs, idx, nseed, overlap>>
    /\ SeedFrame

SeedCountChannels(p) ==
    /\ pc[p] = "count_channels"
    /\ IF seed_channels_missing(Get(sv[p], "id").v)
       THEN Goto(p, "create_channel") /\ idx' = [idx EXCEPT ![p] = 1]
       ELSE Goto(p, "list_channels") /\ UNCHANGED idx
    /\ UNCHANGED <<server, channel, message, nextId, sv, chs, nseed, overlap>>
    /\ SeedFrame

SeedCreateChannel(p) ==
    /\ pc[p] = "create_channel"
    /\ LET r == create_channel(Get(sv[p], "id").v, SeedChannel(SeedChannels[idx[p]]))
       IN  channel' = r.coll
    /\ nextId' = nextId + 1
    /\ IF idx[p] < Len(SeedChannels)
       THEN idx' = [idx EXCEPT ![p] = idx[p] + 1] /\ UNCHANGED pc
       ELSE Goto(p, "list_channels") /\ UNCHANGED idx
    /\ UNCHANGED <<server, message, sv, chs, nseed, overlap>>
    /\ SeedFrame

SeedListChannels(p) ==
    /\ pc[p] = "list_channels"
    /\ chs' = [chs EXCEPT ![p] = list_channels(Get(sv[p], "id").v)]
    /\ IF Truthy(chs'[p]) THEN Goto(p, "count_messages") ELSE Goto(p, "return")
    /\ UNCHANGED <<server, channel, message, nextId, sv, idx, nseed, overlap>>
    /\ SeedFrame

SeedCountMessages(p) ==
    /\ pc[p] = "count_messages"
    /\ IF seed_messages_missing(chs[p].v[1])
       THEN Goto(p, "send_message") /\ idx' = [idx EXCEPT ![p] = 1]
       ELSE Goto(p, "return") /\ UNCHANGED idx
    /\ UNCHANGED <<server, channel, message, nextId, sv, chs, nseed, overlap>>
    /\ SeedFrame

SeedSendMessage(p) ==
    /\ pc[p] = "send_message"
    /\ LET first_channel == chs[p].v[1]
           payload == MessageIn(SeedMessage(SeedTexts[idx[p]]))
       IN  /\ ~send_message_gives_up(send_message_channel(Get(first_channel, "id").v))
           /\ message' = send_message(Get(first_channel, "id").v, payload).coll
    /\ nextId' = nextId + 1
    /\ IF idx[p] < Len(SeedTexts)
       THEN idx' = [idx EXCEPT ![p] = idx[p] + 1] /\ UNCHANGED pc
       ELSE Goto(p, "return") /\ UNCHANGED idx
    /\ UNCHANGED <<server, channel, sv, chs, nseed, overlap>>
    /\ SeedFrame

SeedReturn(p) ==
    /\ pc[p] = "return"
    /\ resp' = Response("seed_demo", "", None, 0, 200, seed_response(p))
    /\ Goto(p, "done")
    /\ UNCHANGED <<server, channel, message, nextId, sv, chs, idx, nseed, overlap>>
    /\ UNCHANGED <<budget, hist, clock, SerializeVars>>

-----------------------------------------------------------------------------
(* Specifications *)

InitStore ==
    /\ server = <<>> /\ channel = <<>> /\ message = <<>>
    /\ nextId = 1
    /\ clock = 0
    /\ resp = NoResponse
    /\ hist = {}
    /\ pc = [p \in ProcIds |-> "idle"]
    /\ sv = [p \in ProcIds |-> None]
    /\ chs = [p \in ProcIds |-> List(<<>>)]
    /\ idx = [p \in ProcIds |-> 0]
    /\ overlap = FALSE

\* client requests on an empty store
Init == InitStore /\ budget = MaxCreates /\ nseed = 0 /\ sdoc = None /\ sout = <<>>

Requests ==
    \/ ReadRoot
    \/ Hello
    \/ TestDatabase
    \/ ListServers
    \/ CreateServer
    \/ ListChannels
    \/ CreateChannel
    \/ ListMessages
    \/ SendMessage

Next == Requests \/ Tick

Spec == Init /\ [][Next]_vars

\* two seed_demo calls on an empty store, their store calls interleaved
InitSeed == InitStore /\ budget = 0 /\ nseed = 2 /\ sdoc = None /\ sout = <<>>

NextSeed ==
    \E p \in ProcIds :
        \/ SeedBegin(p)
        \/ SeedFindServer(p)
        \/ SeedCreateServer(p)
        \/ SeedCountChannels(p)
        \/ SeedCreateChannel(p)
        \/ SeedListChannels(p)
        \/ SeedCountMessages(p)
        \/ SeedSendMessage(p)
        \/ SeedReturn(p)

SpecSeed == InitSeed /\ [][NextSeed]_vars

\* one seed_demo call and the clients' requests, interleaved (the clock
\* stands still: the stamps decide nothing but the order list_messages returns)
InitAll == InitStore /\ budget = 1 /\ nseed = 1 /\ sdoc = None /\ sout = <<>>

NextAll == Requests \/ NextSeed

SpecAll == InitAll /\ [][NextAll]_vars

\* serialize_doc applied to a document, then to its own result
DocKeys == {"_id", "id", "name", "owner_id"}

DocValues == {Oid(1), Oid(2), Str("x"), Str(OidStr(1)), None, List(<<Oid(1)>>)}

Docs ==
    {None} \cup
    {Dict(items) : items \in UNION {
        {s \in [1..n -> DocKeys \X DocValues] :
            \A i, j \in 1..n : i # j => s[i][1] # s[j][1]} : n \in 0..MaxFields}}

InitSerialize == InitStore /\ budget = 0 /\ nseed = 0 /\ sdoc \in Docs /\ sout = <<>>

Serialize ==
    /\ Len(sout) < 2
    /\ sout' = Append(sout, serialize_doc(IF sout = <<>> THEN sdoc ELSE sout[Len(sout)]))
    /\ UNCHANGED <<server, channel, message, nextId, clock, resp, budget, hist>>
    /\ UNCHANGED <<SeedVars, sdoc>>

NextSerialize == Serialize

SpecSerialize == InitSerialize /\ [][NextSerialize]_vars

-----------------------------------------------------------------------------
(* Properties *)

Items(list) == {list.v[i] : i \in 1..Len(list.v)}

NamedVibeCord == {i \in 1..Len(server) : Get(server[i], "name") = Str("VibeCord")}

\* the store holds the demo content once: one server, its four channels,
\* three messages in the first of them, and nothing else
SeededOnce ==
    /\ Len(server) = 1
    /\ Get(server[1], "name") = Str("VibeCord")
    /\ Len(channel) = Len(SeedChannels)
    /\ \A i \in 1..Len(channel) :
          /\ Get(channel[i], "name") = Str(SeedChannels[i])
          /\ Get(channel[i], "server_id") = Str(OidStr(Get(server[1], "_id").v))
    /\ Len(message) = Len(SeedTexts)
    /\ \A i \in 1..Len(message) :
          Get(message[i], "channel_id") = Str(OidStr(Get(channel[1], "_id").v))

C9_TwoServersOnlyByRace == Cardinality(NamedVibeCord) >= 2 => overlap

C9_Witness == Cardinality(NamedVibeCord) = 2 /\ overlap

\* C2: list_messages returns only messages of the channel in
\* the path, in non-decreasing creation-time order, and never more than
\* limit of them, for every limit >= 0.
C2_ListMessagesCapped ==
    resp.route = "list_messages" =>
        /\ \A d \in Items(resp.out) : Get(d, "channel_id") = Str(resp.path)
        /\ \A i \in 1..(Len(resp.out.v) - 1) :
              Get(resp.out.v[i], "created_at").v <= Get(resp.out.v[i + 1], "created_at").v
        /\ Len(resp.out.v) <= resp.limit

\* C3: the Channel create_channel returns, and the Channels list_channels
\* returns for that server_id afterwards, carry the server_id of the path,
\* whatever server_id the request body held.
C3_ChannelServerIdFromPath ==
    /\ (resp.route = "create_channel" /\ resp.status = 200) =>
          Get(resp.out, "server_id") = Str(resp.path)
    /\ resp.route = "list_channels" =>
          \A d \in Items(resp.out) : Get(d, "server_id") = Str(resp.path)
    /\ \A e \in hist : e.route = "create_channel" =>
          \E d \in Items(list_channels(e.path)) :
              Get(d, "id") = e.id /\ Get(d, "server_id") = Str(e.path)

C3_Witness ==
    /\ resp.route = "list_channels"
    /\ \E e \in hist :
          /\ e.route = "create_channel" /\ e.path = resp.path
          /\ Has(e.body, "server_id") /\ Get(e.body, "server_id") # Str(e.path)
          /\ \E d \in Items(resp.out) : Get(d, "id") = e.id

ListsCreatedServer(list, e) ==
    \E d \in Items(list) :
        /\ Has(d, "id") /\ Get(d, "id") = e.id
        /\ Get(d, "id").t = "str" /\ Len(Get(d, "id").v) > 0
        /\ ~Has(d, "_id")
        /\ \A k \in {"name", "icon_url", "description", "owner_id"} :
              Has(d, k) /\ Get(d, k) = GetOr(e.body, k, None)

\* C4: after create_server, whatever is created next, the list list_servers
\* returns holds a document whose id is the non-empty string create_server
\* returned and whose other fields equal the request's ServerIn fields
\* (name, icon_url, description, owner_id; null where the request omits one).
C4_CreatedServerListed ==
    \A e \in hist : e.route = "create_server" =>
        /\ ListsCreatedServer(list_servers, e)
        /\ resp.route = "list_servers" => ListsCreatedServer(resp.out, e)

C4_Witness ==
    /\ resp.route = "list_servers"
    /\ Cardinality(hist) >= 2
    /\ \E e \in hist : e.route = "create_server" /\ Len(e.body.v) > 1
    /\ \E e \in hist : e.route # "create_server"

\* C5: create_server with only a name returns the id and every
\* Server field with its default: icon_url, description, owner_id null and
\* member_ids an empty sequence.
C5_NameOnlyServerDefaults ==
    (/\ resp.route = "create_server" /\ resp.status = 200
     /\ resp.body = Dict(<< <<"name", Str("Test")>> >>)) =>
        /\ Has(resp.out, "id") /\ Get(resp.out, "id").t = "str"
        /\ Get(resp.out, "name") = Str("Test")
        /\ Get(resp.out, "icon_url") = None
        /\ Get(resp.out, "description") = None
        /\ Get(resp.out, "owner_id") = None
        /\ Has(resp.out, "member_ids") /\ Get(resp.out, "member_ids") = List(<<>>)

Malformed(route, body) ==
    CASE route = "create_server" -> ~Has(body, "name")
      [] route = "create_channel" ->
            \/ ~Has(body, "name")
            \/ Has(body, "type") /\ Get(body, "type").v \notin
                   {"text", "voice", "announcement", "stage"}
      [] route = "send_message" ->
            ~(Has(body, "author_id") /\ Has(body, "author_name") /\ Has(body, "content"))
      [] OTHER -> FALSE

NoChannel(path) ==
    \A i \in 1..Len(channel) : OidStr(Get(channel[i], "_id").v) # path

SerializedClean(d) ==
    d.t = "dict" => (~Has(d, "_id") /\ \A i \in 1..Len(d.v) : d.v[i][2].t # "oid")

\* C7: serialize_doc applied to its own result changes nothing, and the
\* result has no _id key and no field whose value is a store-native id.
C7_SerializeIdempotent ==
    /\ Len(sout) >= 1 => SerializedClean(sout[1])
    /\ Len(sout) = 2 => sout[2] = sout[1]

C7_Witness ==
    /\ Len(sout) = 2
    /\ sdoc.t = "dict"
    /\ Has(sdoc, "_id") /\ Has(sdoc, "id")
    /\ \E i \in 1..Len(sdoc.v) : sdoc.v[i][1] # "_id" /\ sdoc.v[i][2].t = "oid"

\* C8: a create request whose body misses a required field, or whose Channel
\* type is none of text, voice, announcement, stage, is answered with a
\* client error and leaves the three collections unchanged.
C8_ValidationShortCircuits ==
    [][(resp' # resp /\ Malformed(resp'.route, resp'.body)) =>
           (/\ resp'.status \in 400..499
            /\ server' = server /\ channel' = channel /\ message' = message)]_vars

C8_Witness ==
    /\ resp.route = "create_channel" /\ resp.status = 422
    /\ Get(resp.body, "type") = Str("forum")
    /\ Len(server) + Len(channel) + Len(message) > 0

IsPrefix(a, b) == Len(a) <= Len(b) /\ SubSeq(b, 1, Len(a)) = a

Total == Len(server) + Len(channel) + Len(message)

\* C10: every step of every request keeps each document of the three
\* collections, unchanged, and adds at most one document; a list or
\* diagnostic request adds none, a successful create request exactly one.
C10_AppendOnly ==
    [][/\ IsPrefix(server, server')
       /\ IsPrefix(channel, channel')
       /\ IsPrefix(message, message')
       /\ Total' <= Total + 1
       /\ (resp' # resp /\ resp'.route \in
              {"read_root", "hello", "test_database", "list_servers",
               "list_channels", "list_messages"}) => Total' = Total
       /\ (resp' # resp /\ resp'.status = 200 /\ resp'.route \in
              {"create_server", "create_channel", "send_message"}) =>
              Total' = Total + 1]_vars

C10_Witness ==
    /\ pc[1] = "done"
    /\ budget = 0
    /\ resp.route \in {"list_servers", "list_channels", "list_messages"}
    /\ Len(server) >= 2 /\ Len(channel) >= 4 /\ Len(message) >= 3

====
